---- MODULE Spec2Model ----
(***************************************************************************)
(* Model of the location-aware session coordination kernel of the         *)
(* McDonald's Malaysia outlet map frontend:                                *)
(*   - the proximity engine  (app/layout.tsx calculateIntersections,       *)
(*                            utils/distance.ts)                           *)
(*   - the chat session hook (hooks/useChatSession.ts, services/chatApi)   *)
(*   - the geolocation hook  (hooks/useGeolocation.ts)                     *)
(*   - the chat panel        (components/chat: FloatingChatbot, ChatPanel, *)
(*                            ChatHeader, ChatInput; LocationButton)       *)
(* Each part has its own next-state relation and specification.  The hooks *)
(* and the Home page share no state; the chat panel works on the chat      *)
(* session of FloatingChatbot and on hook instances of its own.            *)
(***************************************************************************)
EXTENDS Integers, Sequences, FiniteSets, TLC

VARIABLES
  \* ---- Home page (app/layout.tsx) ----
  apiOutlets,        \* the outlet list the backend answers with (data.outlets)
  outlets,           \* useState<Outlet[]>: the valid outlets
  intersectionData,  \* useState<Map<number, OutletIntersectionData>>
  homePc,            \* "mount" | "timer" | "done" | "failed"
  selectedOutlet,    \* useState<Outlet | undefined>
  highlighted,       \* Map: the highlight markers on the map (selectedMarkersRef)
  \* ---- useChatSession ----
  chat,              \* useState<ChatState>
  createCalls,       \* chatApi.createSession requests awaiting their answer
  sendCalls,         \* chatApi.sendMessage requests awaiting their answer
  deleteCalls,       \* chatApi.deleteSession requests awaiting their answer
  createCount,       \* createSession requests issued so far
  sendCount,         \* sendMessage requests issued so far
  endCount,          \* endSession calls made so far
  chatLast,          \* the hook operation or continuation that ran last
  \* ---- useGeolocation ----
  browser,           \* the browser family navigator.userAgent names
  geo,               \* useState<GeolocationState>
  permissionPc,      \* checkPermission: "query" | "unsupported" | "listening" | "none"
  acquires,          \* getCurrentLocation calls whose sensor call is outstanding
  acquireCount,      \* getCurrentLocation calls made so far
  geoLast,           \* the hook operation or callback that ran last
  \* ---- the chat panel, rendered while chat.isOpen ----
  panelGeo,          \* the useGeolocation instances of ChatHeader and LocationButton
  autoLocationAttempted, \* ChatHeader: useRef(false)
  previousLocation,  \* ChatHeader: useRef<{lat, lng} | null>(null)
  buttonChat,        \* LocationButton: the state of its own useChatSession()
  panelCount         \* getCurrentLocation calls made so far, by instance

homeVars == <<apiOutlets, outlets, intersectionData, homePc,
              selectedOutlet, highlighted>>

chatVars == <<chat, createCalls, sendCalls, deleteCalls, createCount,
              sendCount, endCount, chatLast>>

geoVars == <<browser, geo, permissionPc, acquires, acquireCount, geoLast>>

panelVars == <<panelGeo, autoLocationAttempted, previousLocation, buttonChat,
               panelCount>>

\* What the operations of one part leave alone: the state of the other parts.
notHome == <<chatVars, geoVars, panelVars>>

notChat == <<homeVars, geoVars, panelVars>>

notGeo == <<homeVars, chatVars, panelVars>>

vars == <<apiOutlets, outlets, intersectionData, homePc,
          selectedOutlet, highlighted,
          chat, createCalls, sendCalls, deleteCalls, createCount,
          sendCount, endCount, chatLast,
          browser, geo, permissionPc, acquires, acquireCount, geoLast,
          panelGeo, autoLocationAttempted, previousLocation, buttonChat,
          panelCount>>

(***************************************************************************)
(* Bounds                                                                  *)
(***************************************************************************)
\* Largest number of outlets in the backend's answer; ids are 1..MaxOutlets.
MaxOutlets == 3

\* Most remote calls (chatApi.createSession and chatApi.sendMessage requests)
\* and endSession calls of one behaviour, taken together.
MaxRequests == 3

\* Most getCurrentLocation calls of one behaviour.
MaxAcquires == 2

(***************************************************************************)
(* Proximity engine: utils/distance.ts                                     *)
(***************************************************************************)
\* MAP_CONFIG.radius, in meters.
MAP_CONFIG_radius == 5000

\* Sample coordinates, in units of 1e-4 degree.  All sample outlets lie on
\* one meridian; latitude 0 stands for a record without coordinates (falsy
\* in the validity filter).  Neighbouring latitudes are 27 units (0.30 km)
\* apart, 31597 and 32046 are 449 units (4.99 km, inside the radius) apart,
\* 31597 and 32047 are 450 units (5003.8 m, outside, recorded as 5.00) apart.
Lats == {0, 31570, 31597, 31624, 32046, 32047}
Lons == {1017123}

OutletIds == 1..MaxOutlets
Outlet == [id : OutletIds, latitude : Lats, longitude : Lons]

Abs(x) == IF x < 0 THEN -x ELSE x

\* calculateDistance, in millimeters.  With lon1 = lon2 the Haversine terms
\* reduce to a = sin^2(dphi/2), c = 2*atan2(sqrt a, sqrt(1-a)) = |dphi|, so the
\* result is R * |lat2 - lat1| * pi/180: 11119.49 mm per 1e-4 degree for
\* R = 6371e3 m.
calculateDistanceOneWay(lat1, lon1, lat2, lon2) ==
  IF lat2 >= lat1 THEN ((lat2 - lat1) * 1111949) \div 100 ELSE 0

calculateDistance(lat1, lon1, lat2, lon2) ==
  (Abs(lat2 - lat1) * 1111949) \div 100

\* Math.round((distanceMeters / 1000) * 100) / 100, kept as an integer number
\* of hundredths of a kilometer (Math.round rounds halves up).
RoundKm(distanceMm) == (distanceMm + 5000) \div 10000

\* A threshold test on the rounded distance, which the code does not make.
isWithinRadiusRounded(lat1, lon1, lat2, lon2, radiusMeters) ==
  RoundKm(calculateDistance(lat1, lon1, lat2, lon2)) * 10 <= radiusMeters

\* isWithinRadius: distance <= radiusMeters (the unrounded distance).
isWithinRadius(lat1, lon1, lat2, lon2, radiusMeters) ==
  calculateDistance(lat1, lon1, lat2, lon2) <= radiusMeters * 1000

(***************************************************************************)
(* Proximity engine: calculateIntersections (app/layout.tsx)               *)
(***************************************************************************)
\* "Skip self": the inner loop returns when the ids are equal.
SkipSelfNever(otherOutlet, outlet) == FALSE

SkipSelf(otherOutlet, outlet) == otherOutlet.id = outlet.id

\* The element pushed for otherOutlet: {...otherOutlet, distance_km}.
NeighborOf(outlet, otherOutlet) ==
  [id |-> otherOutlet.id,
   latitude |-> otherOutlet.latitude,
   longitude |-> otherOutlet.longitude,
   distance_km |->
     RoundKm(calculateDistance(outlet.latitude, outlet.longitude,
                               otherOutlet.latitude, otherOutlet.longitude))]

\* The inner forEach: the neighbours of outlet, in input order.
RECURSIVE CollectFrom(_, _, _)
CollectFrom(list, outlet, j) ==
  IF j > Len(list) THEN <<>>
  ELSE LET otherOutlet == list[j]
           rest == CollectFrom(list, outlet, j + 1)
       IN IF SkipSelf(otherOutlet, outlet) THEN rest
          ELSE IF isWithinRadius(outlet.latitude, outlet.longitude,
                                 otherOutlet.latitude, otherOutlet.longitude,
                                 MAP_CONFIG_radius)
               THEN <<NeighborOf(outlet, otherOutlet)>> \o rest
               ELSE rest

\* Array.prototype.sort((a, b) => a.distance_km - b.distance_km): a stable
\* sort (ECMAScript 2019), here by insertion; x goes behind every element
\* that does not compare greater.
RECURSIVE InsertByDistance(_, _)
InsertByDistance(sorted, x) ==
  IF sorted = <<>> THEN <<x>>
  ELSE IF Head(sorted).distance_km - x.distance_km > 0
       THEN <<x>> \o sorted
       ELSE <<Head(sorted)>> \o InsertByDistance(Tail(sorted), x)

RECURSIVE SortFrom(_, _, _)
SortFrom(list, k, acc) ==
  IF k > Len(list) THEN acc
  ELSE SortFrom(list, k + 1, InsertByDistance(acc, list[k]))

SortUnsorted(list) == list

SortByDistance(list) == SortFrom(list, 1, <<>>)

\* The record set for one outlet of the outer forEach.
IntersectionRecord(list, outlet) ==
  LET intersectingOutlets == SortByDistance(CollectFrom(list, outlet, 1))
  IN [outletId |-> outlet.id,
      hasIntersection |-> Len(intersectingOutlets) > 0,
      intersectingOutlets |-> intersectingOutlets]

\* Index of the last element of list with this id: Map.set overwrites.
LastIndexOf(list, id) ==
  CHOOSE i \in 1..Len(list) :
    /\ list[i].id = id
    /\ \A j \in (i + 1)..Len(list) : list[j].id # id

calculateIntersections(list) ==
  [id \in {list[i].id : i \in 1..Len(list)} |->
     IntersectionRecord(list, list[LastIndexOf(list, id)])]

\* A call that sorted the array it was given in place (reversing it here).
InputReversedByCall(list) == [i \in 1..Len(list) |-> list[Len(list) + 1 - i]]

\* The array passed to calculateIntersections as the call leaves it: the
\* loops only read outlet and otherOutlet, the pushed element is a spread
\* copy, and the sort runs on the local intersectingOutlets array.
InputAfterCall(list) == list

(***************************************************************************)
(* Home page: loadOutletsAndNeighbors (app/layout.tsx)                     *)
(***************************************************************************)
\* Outlet ids are unique in the backend's answer.
UniqueIds(list) ==
  \A i, j \in 1..Len(list) : list[i].id = list[j].id => i = j

OutletLists ==
  {l \in UNION {[1..n -> Outlet] : n \in 0..MaxOutlets} : UniqueIds(l)}

\* data.outlets.filter(outlet => outlet.latitude && outlet.longitude)
ValidOutlet(outlet) == outlet.latitude # 0 /\ outlet.longitude # 0

EmptyMap == [id \in {} |-> 0]

\* selectedOutlet: undefined, as a record no outlet equals (ids start at 1).
NoOutlet == [id |-> 0, latitude |-> 0, longitude |-> 0]

\* An effect that left the highlight markers of the earlier selection.
SelectedOutletEffectKeeping(index, selected, shown) ==
  IF selected = NoOutlet THEN shown
  ELSE IF selected.id \in DOMAIN index /\ index[selected.id].hasIntersection
       THEN shown \o index[selected.id].intersectingOutlets
       ELSE shown

\* Map's selected-outlet effect: the markers of the earlier selection are
\* removed, then one highlight marker is added for every element of
\* intersectionData.get(selectedOutlet.id).intersectingOutlets when the
\* record exists and hasIntersection is set.  shown is what was highlighted
\* before.
SelectedOutletEffect(index, selected, shown) ==
  IF selected = NoOutlet THEN <<>>
  ELSE IF selected.id \in DOMAIN index /\ index[selected.id].hasIntersection
       THEN index[selected.id].intersectingOutlets
       ELSE <<>>

InitHome ==
  /\ apiOutlets \in OutletLists
  /\ outlets = <<>>
  /\ intersectionData = EmptyMap
  /\ homePc = "mount"
  /\ selectedOutlet = NoOutlet
  /\ highlighted = <<>>

\* The fetch answers: setOutlets(validOutlets), and the timer is armed.
LoadOutletsAndNeighbors ==
  /\ homePc = "mount"
  /\ outlets' = SelectSeq(apiOutlets, ValidOutlet)
  /\ homePc' = "timer"
  /\ UNCHANGED <<apiOutlets, intersectionData, selectedOutlet, highlighted,
                 notHome>>

\* The fetch fails: setError, nothing else changes.
LoadOutletsFailed ==
  /\ homePc = "mount"
  /\ homePc' = "failed"
  /\ UNCHANGED <<apiOutlets, outlets, intersectionData, selectedOutlet,
                 highlighted, notHome>>

\* The setTimeout callback: setIntersectionData(calculateIntersections(validOutlets)).
\* The new Map re-runs the effects of the map component: the markers effect
\* (getMarkerColor changed) and then the selected-outlet effect.
CalculateIntersectionsTimer ==
  /\ homePc = "timer"
  /\ intersectionData' = calculateIntersections(outlets)
  /\ outlets' = InputAfterCall(outlets)
  /\ homePc' = "done"
  /\ highlighted' = SelectedOutletEffect(intersectionData', selectedOutlet,
                                         highlighted)
  /\ UNCHANGED <<apiOutlets, selectedOutlet, notHome>>

\* The map is rendered (loading is false) and has markers to click.
MapShown == homePc \in {"timer", "done"}

\* A click on an outlet's marker: onOutletClick(outlet) = setSelectedOutlet(outlet).
\* Setting the outlet that is selected already changes no state and runs no
\* effect.
OnOutletClick(outlet) ==
  /\ MapShown
  /\ \E i \in 1..Len(outlets) : outlets[i] = outlet
  /\ selectedOutlet' = outlet
  /\ highlighted' = IF outlet = selectedOutlet THEN highlighted
                    ELSE SelectedOutletEffect(intersectionData, outlet, highlighted)
  /\ UNCHANGED <<apiOutlets, outlets, intersectionData, homePc, notHome>>

\* onClearSelection: setSelectedOutlet(undefined); the button is rendered
\* while an outlet is selected.
OnClearSelection ==
  /\ MapShown
  /\ selectedOutlet # NoOutlet
  /\ selectedOutlet' = NoOutlet
  /\ highlighted' = SelectedOutletEffect(intersectionData, NoOutlet, highlighted)
  /\ UNCHANGED <<apiOutlets, outlets, intersectionData, homePc, notHome>>

\* A change of the map controls (show radius, 24 hours, search):
\* onFiltersChange builds a new filters object, which gives a new
\* filteredOutlets array, so the markers effect runs: with outlets to show it
\* removes every Marker and Circle layer from the map, the highlight markers
\* among them, and adds the outlet markers again; the selected-outlet effect
\* does not run (its dependencies are unchanged).  The filter values
\* themselves are not part of the model.
OnFiltersChange ==
  /\ MapShown
  /\ highlighted' = IF Len(outlets) > 0 THEN <<>> ELSE highlighted
  /\ UNCHANGED <<apiOutlets, outlets, intersectionData, homePc, selectedOutlet,
                 notHome>>

NextHome ==
  \/ LoadOutletsAndNeighbors
  \/ LoadOutletsFailed
  \/ CalculateIntersectionsTimer
  \/ \E outlet \in Outlet : OnOutletClick(outlet)
  \/ OnClearSelection
  \/ OnFiltersChange

(***************************************************************************)
(* The proximity engine called directly: calculateIntersections applied to *)
(* an outlet list, and applied again to the list the first call left.      *)
(***************************************************************************)
\* The lists the page passes to the engine: outlets with coordinates.
ValidOutletLists ==
  {l \in OutletLists : \A i \in 1..Len(l) : ValidOutlet(l[i])}

InitEngine ==
  /\ apiOutlets = <<>>
  /\ outlets \in ValidOutletLists
  /\ intersectionData = EmptyMap
  /\ homePc = "engine"
  /\ selectedOutlet = NoOutlet
  /\ highlighted = <<>>

RunCalculateIntersections ==
  /\ homePc \in {"engine", "engine.once"}
  /\ intersectionData' = calculateIntersections(outlets)
  /\ outlets' = InputAfterCall(outlets)
  /\ homePc' = IF homePc = "engine" THEN "engine.once" ELSE "engine.twice"
  /\ UNCHANGED <<apiOutlets, selectedOutlet, highlighted, notHome>>

NextEngine == RunCalculateIntersections

(***************************************************************************)
(* Claims about the proximity engine (specification SpecHome)              *)
(***************************************************************************)
IndexIds == DOMAIN intersectionData

NeighborList(a) == intersectionData[a].intersectingOutlets

\* b is recorded in a's neighbour list with distance d (hundredths of a km).
Recorded(a, b, d) ==
  \E k \in 1..Len(NeighborList(a)) :
    NeighborList(a)[k].id = b /\ NeighborList(a)[k].distance_km = d

RecordedDistances ==
  UNION {{NeighborList(a)[k].distance_km : k \in 1..Len(NeighborList(a))} :
           a \in IndexIds}

\* Position of the outlet with this id in the list the index was built from.
InputPos(id) == CHOOSE i \in 1..Len(outlets) : outlets[i].id = id

\* C8: symmetry of the intersection index.  For every two outlets A and B
\* of the input, B is in A's intersectingOutlets with recorded distance d if
\* and only if A is in B's intersectingOutlets with the same distance d.
C8_Symmetry ==
  homePc = "done" =>
    \A a \in IndexIds : \A b \in IndexIds : \A d \in RecordedDistances :
      Recorded(a, b, d) <=> Recorded(b, a, d)

\* C8 witness: an index with a pair of mutual neighbours and a pair of
\* outlets that are not neighbours of each other.
C8_Witness ==
  /\ homePc = "done"
  /\ \E a \in IndexIds : \E b \in IndexIds \ {a} : \E d \in RecordedDistances :
       Recorded(a, b, d) /\ Recorded(b, a, d)
  /\ \E a \in IndexIds : \E b \in IndexIds \ {a} :
       \A d \in RecordedDistances : ~Recorded(a, b, d) /\ ~Recorded(b, a, d)

\* C9: no self-neighbour.  No outlet id appears in its own neighbour list,
\* also when several outlets have identical coordinates.
C9_NoSelfNeighbor ==
  homePc = "done" =>
    \A a \in IndexIds : \A k \in 1..Len(NeighborList(a)) :
      NeighborList(a)[k].id # a

\* C9 witness: two outlets at identical coordinates, each the other's
\* neighbour at distance 0.
C9_Witness ==
  /\ homePc = "done"
  /\ \E i \in 1..Len(outlets) : \E j \in 1..Len(outlets) :
       /\ i # j
       /\ outlets[i].latitude = outlets[j].latitude
       /\ outlets[i].longitude = outlets[j].longitude
       /\ Recorded(outlets[i].id, outlets[j].id, 0)

\* Each neighbour list is ascending by recorded distance.
AscendingByDistance(a) ==
  \A k \in 1..Len(NeighborList(a)) : \A m \in 1..Len(NeighborList(a)) :
    k < m => NeighborList(a)[k].distance_km <= NeighborList(a)[m].distance_km

\* C10 as stated: every neighbour list is sorted ascending by distance and
\* neighbours at equal distance are ordered by outlet id ascending, whatever
\* the order of the input list.
C10_TiesByIdAscending ==
  homePc = "done" =>
    \A a \in IndexIds :
      /\ AscendingByDistance(a)
      /\ \A k \in 1..Len(NeighborList(a)) : \A m \in 1..Len(NeighborList(a)) :
           (k < m /\ NeighborList(a)[k].distance_km = NeighborList(a)[m].distance_km)
             => NeighborList(a)[k].id < NeighborList(a)[m].id

\* C10 amended: every neighbour list is sorted ascending by recorded
\* distance, and neighbours at equal recorded distance keep the order they
\* have in the input outlet list.
C10_TiesInInputOrder ==
  homePc = "done" =>
    \A a \in IndexIds :
      /\ AscendingByDistance(a)
      /\ \A k \in 1..Len(NeighborList(a)) : \A m \in 1..Len(NeighborList(a)) :
           (k < m /\ NeighborList(a)[k].distance_km = NeighborList(a)[m].distance_km)
             => InputPos(NeighborList(a)[k].id) < InputPos(NeighborList(a)[m].id)

\* C10 witness: a list the sort had to reorder, and a list holding two
\* neighbours at equal distance whose ids descend.
C10_Witness ==
  /\ homePc = "done"
  /\ \E a \in IndexIds :
       \E k \in 1..Len(NeighborList(a)) : \E m \in 1..Len(NeighborList(a)) :
         /\ k < m
         /\ NeighborList(a)[k].distance_km < NeighborList(a)[m].distance_km
         /\ InputPos(NeighborList(a)[k].id) > InputPos(NeighborList(a)[m].id)
  /\ \E a \in IndexIds :
       \E k \in 1..Len(NeighborList(a)) : \E m \in 1..Len(NeighborList(a)) :
         /\ k < m
         /\ NeighborList(a)[k].distance_km = NeighborList(a)[m].distance_km
         /\ NeighborList(a)[k].id > NeighborList(a)[m].id

\* The outlet of the input list with this id.
InputOutlet(id) == outlets[InputPos(id)]

\* The unrounded distance between two outlets of the input, in millimeters.
UnroundedDistance(a, b) ==
  calculateDistance(InputOutlet(a).latitude, InputOutlet(a).longitude,
                    InputOutlet(b).latitude, InputOutlet(b).longitude)

IsNeighbor(a, b) ==
  \E k \in 1..Len(NeighborList(a)) : NeighborList(a)[k].id = b

StoredNeighbors(index, selected) ==
  IF selected = NoOutlet THEN <<>>
  ELSE IF selected.id \in DOMAIN index
       THEN index[selected.id].intersectingOutlets
       ELSE <<>>

\* C24: selection projection.  Every step that selects an outlet or clears
\* the selection (and the step that installs the index) leaves highlighted
\* exactly the neighbour list the index stores for the selected outlet id,
\* empty when the id has no record or nothing is selected; selecting and
\* clearing never modify the index; and no state shows a highlight other
\* than those of the current selection.
C24_SelectionProjection ==
  [][/\ (selectedOutlet' # selectedOutlet \/ intersectionData' # intersectionData)
          => highlighted' = StoredNeighbors(intersectionData', selectedOutlet')
     /\ (selectedOutlet' # selectedOutlet)
          => intersectionData' = intersectionData
     /\ highlighted' \in {StoredNeighbors(intersectionData', selectedOutlet'), <<>>}]_vars

\* C24 witness: with the index installed, an outlet with two neighbours is
\* selected and exactly they are highlighted, while another outlet of the
\* index has a different neighbour list.
C24_Witness ==
  /\ homePc = "done"
  /\ selectedOutlet # NoOutlet
  /\ Len(highlighted) = 2
  /\ highlighted = NeighborList(selectedOutlet.id)
  /\ \E b \in IndexIds :
       NeighborList(b) # <<>> /\ NeighborList(b) # highlighted

(***************************************************************************)
(* Chat session: hooks/useChatSession.ts                                   *)
(***************************************************************************)
\* sessionId: null.
NoSession == 0

\* error: null.
NoError == "null"

\* userLocation: null; a UserLocation {lat, lng} is the pair <<lat, lng>>.
NullLocation == <<>>

Locations == {<<31570, 1017123>>, <<31597, 1017123>>}

\* Message texts a caller passes; " " stands for a whitespace-only text.
Texts == {"", " ", "hi"}

\* String.prototype.trim
Trim(message) == IF message = " " THEN "" ELSE message

\* What the remote deleteSession call can do as seen by endSession: answer
\* {success: true}, answer {success: false} or throw.
DeleteOutcomes == {"ok", "fail", "throw"}

initialState ==
  [isOpen |-> FALSE,
   sessionId |-> NoSession,
   messages |-> <<>>,
   isTyping |-> FALSE,
   isLoading |-> FALSE,
   error |-> NoError,
   userLocation |-> NullLocation]

\* An addMessage that put the new message in front.
addMessageInFront(st, content, role, id) ==
  [st EXCEPT !.messages = <<[id |-> id, content |-> content, role |-> role]>> \o @]

\* addMessage: setState(prev => ({...prev, messages: [...prev.messages, message]})).
\* The generated id is unique; it is modelled by the call the message
\* comes from.
addMessage(st, content, role, id) ==
  [st EXCEPT !.messages = Append(@, [id |-> id, content |-> content, role |-> role])]

\* The operation that ran last: its name, the text passed to it ("-" when it
\* takes none), what it did, and the number of setState calls it made (each
\* replaces the state object and re-renders).
Ran(op, text, info, setStates) ==
  [op |-> op, text |-> text, info |-> info, setStates |-> setStates]

InitChat ==
  /\ chat = initialState
  /\ createCalls = {}
  /\ sendCalls = {}
  /\ deleteCalls = {}
  /\ createCount = 0
  /\ sendCount = 0
  /\ endCount = 0
  /\ chatLast = Ran("mount", "-", "none", 0)

\* The behaviour has a remote call left.
RequestLeft == createCount + sendCount + endCount < MaxRequests

\* createSession, up to its await: updateState({isLoading: true, error: null})
\* and the request.
CreateSessionStart(st) == [st EXCEPT !.isLoading = TRUE, !.error = NoError]

CreateSession ==
  /\ RequestLeft
  /\ chat' = CreateSessionStart(chat)
  /\ createCount' = createCount + 1
  /\ createCalls' = createCalls \cup {createCount + 1}
  /\ chatLast' = Ran("createSession", "-", "requested", 1)
  /\ UNCHANGED <<sendCalls, deleteCalls, sendCount, endCount, notChat>>

\* createSession after its await, response.success && response.data: the
\* backend's session id is new with every request.
CreateSessionResolved(n, welcome_message) ==
  /\ n \in createCalls
  /\ createCalls' = createCalls \ {n}
  /\ LET st == [chat EXCEPT !.sessionId = n, !.isLoading = FALSE]
     IN chat' = IF welcome_message
                THEN addMessage(st, "welcome", "assistant", <<"welcome", n>>)
                ELSE st
  /\ chatLast' = Ran("createSession.then", "-", "ok", IF welcome_message THEN 2 ELSE 1)
  /\ UNCHANGED <<sendCalls, deleteCalls, createCount, sendCount, endCount, notChat>>

\* createSession after its await, the else branch (and the catch block,
\* which sets the same fields).
CreateSessionFailed(n) ==
  /\ n \in createCalls
  /\ createCalls' = createCalls \ {n}
  /\ chat' = [chat EXCEPT !.error = "Failed to create session", !.isLoading = FALSE]
  /\ chatLast' = Ran("createSession.then", "-", "failed", 1)
  /\ UNCHANGED <<sendCalls, deleteCalls, createCount, sendCount, endCount, notChat>>

\* sendMessage's guard: if (!message.trim() || !state.sessionId) return
SendGuardNoSessionCheck(message) == Trim(message) # ""

SendGuard(message) == Trim(message) # "" /\ chat.sessionId # NoSession

\* A request built without the stored location.
RequestLocationNone(st) == NullLocation

\* requestData.user_location: state.userLocation || undefined, of the state
\* the callback was created with; NullLocation stands for a request without
\* a location.
RequestLocation(st) == st.userLocation

\* sendMessage, up to its await.  Past the guard: addMessage(message, 'user'),
\* updateState({isTyping: true, error: null}) and the request, built from the
\* session id and location of the state the callback was created with.
\* Otherwise the call returns (undefined) and nothing is touched.  op names
\* the caller: "sendMessage" for a direct call of the hook's operation.
SendMessageFrom(op, message) ==
  IF SendGuard(message)
  THEN /\ RequestLeft
       /\ chat' = [addMessage(chat, message, "user", <<"user", sendCount + 1>>)
                     EXCEPT !.isTyping = TRUE, !.error = NoError]
       /\ sendCount' = sendCount + 1
       /\ sendCalls' = sendCalls \cup
            {[call |-> sendCount + 1,
              message |-> message,
              session_id |-> chat.sessionId,
              user_location |-> RequestLocation(chat)]}
       /\ chatLast' = Ran(op, message, "requested", 2)
       /\ UNCHANGED <<createCalls, deleteCalls, createCount, endCount, notChat>>
  ELSE /\ chatLast' = Ran(op, message, "returned", 0)
       /\ UNCHANGED <<chat, createCalls, sendCalls, deleteCalls, createCount,
                      sendCount, endCount, notChat>>

SendMessage(message) == SendMessageFrom("sendMessage", message)

\* ChatInput's send condition without the disabled prop.
SubmitGuardIgnoringError(message) == Trim(message) # "" /\ ~chat.isLoading

\* ChatInput.handleSubmit and handleKeyDown (Enter):
\* message.trim() && !isLoading && !disabled, with the props ChatPanel passes
\* from the chat state st: isLoading = chatSession.isLoading,
\* disabled = !!chatSession.error.
SubmitPasses(st, message) ==
  Trim(message) # "" /\ ~st.isLoading /\ ~(st.error # NoError)

SubmitGuard(message) == SubmitPasses(chat, message)

\* A submit of the chat input (the panel is rendered while isOpen): past the
\* condition onSendMessage(message.trim()) runs, otherwise nothing happens.
HandleSubmit(message) ==
  /\ chat.isOpen
  /\ IF SubmitGuard(message)
     THEN SendMessageFrom("handleSubmit", Trim(message))
     ELSE /\ chatLast' = Ran("handleSubmit", message, "ignored", 0)
          /\ UNCHANGED <<chat, createCalls, sendCalls, deleteCalls, createCount,
                         sendCount, endCount, notChat>>

\* sendMessage after its await, response.success && response.data.
SendMessageResolved(c) ==
  /\ c \in sendCalls
  /\ sendCalls' = sendCalls \ {c}
  /\ chat' = [addMessage(chat, "response", "assistant", <<"assistant", c.call>>)
                EXCEPT !.isTyping = FALSE]
  /\ chatLast' = Ran("sendMessage.then", "-", "ok", 2)
  /\ UNCHANGED <<createCalls, deleteCalls, createCount, sendCount, endCount, notChat>>

\* A failure branch that took the user message of the failed send back.
StateAfterSendFailedRolledBack(c) ==
  [chat EXCEPT !.error = "Failed to send message",
               !.isTyping = FALSE,
               !.messages = SelectSeq(@, LAMBDA m : m.id # <<"user", c.call>>)]

\* The state the failure branch of sendMessage sets:
\* updateState({error: ..., isTyping: false}).
StateAfterSendFailed(c) ==
  [chat EXCEPT !.error = "Failed to send message", !.isTyping = FALSE]

\* sendMessage after its await, the else branch (and the catch block).
SendMessageFailed(c) ==
  /\ c \in sendCalls
  /\ sendCalls' = sendCalls \ {c}
  /\ chat' = StateAfterSendFailed(c)
  /\ chatLast' = Ran("sendMessage.then", "-", "failed", 1)
  /\ UNCHANGED <<createCalls, deleteCalls, createCount, sendCount, endCount, notChat>>

\* updateState({isOpen: true}) and updateState({isOpen: false}).
OpenedState(st) == [st EXCEPT !.isOpen = TRUE]

ClosedState(st) == [st EXCEPT !.isOpen = FALSE]

\* toggleChat, as far as the hook's own state goes: opening creates a
\* session when state.sessionId is null.
ToggleChatCall ==
  IF ~chat.isOpen
  THEN IF chat.sessionId = NoSession
       THEN /\ RequestLeft
            /\ chat' = CreateSessionStart(OpenedState(chat))
            /\ createCount' = createCount + 1
            /\ createCalls' = createCalls \cup {createCount + 1}
            /\ chatLast' = Ran("toggleChat", "-", "requested", 2)
            /\ UNCHANGED <<sendCalls, deleteCalls, sendCount, endCount>>
       ELSE /\ chat' = OpenedState(chat)
            /\ chatLast' = Ran("toggleChat", "-", "opened", 1)
            /\ UNCHANGED <<createCalls, sendCalls, deleteCalls, createCount,
                           sendCount, endCount>>
  ELSE /\ chat' = ClosedState(chat)
       /\ chatLast' = Ran("toggleChat", "-", "closed", 1)
       /\ UNCHANGED <<createCalls, sendCalls, deleteCalls, createCount,
                      sendCount, endCount>>

\* toggleChat on the hook alone.
ToggleChat == ToggleChatCall /\ UNCHANGED notChat

\* closeChat, as far as the hook's own state goes.
CloseChatCall ==
  /\ chat' = ClosedState(chat)
  /\ chatLast' = Ran("closeChat", "-", "closed", 1)
  /\ UNCHANGED <<createCalls, sendCalls, deleteCalls, createCount, sendCount,
                 endCount>>

\* closeChat on the hook alone.
CloseChat == CloseChatCall /\ UNCHANGED notChat

\* A clear that also put the session flags back.
ClearedStateResettingFlags(st) ==
  [st EXCEPT !.messages = <<>>, !.isTyping = FALSE, !.isLoading = FALSE,
             !.error = NoError]

\* updateState({messages: []}): setState(prev => ({...prev, messages: []})).
ClearedState(st) == [st EXCEPT !.messages = <<>>]

\* clearChat
ClearChat ==
  /\ chat' = ClearedState(chat)
  /\ chatLast' = Ran("clearChat", "-", "cleared", 1)
  /\ UNCHANGED <<createCalls, sendCalls, deleteCalls, createCount, sendCount,
                 endCount, notChat>>

\* setUserLocation: updateState({userLocation: location}), whatever is stored.
\* chatLast.info tells whether the (lat, lng) passed equals the stored one.
SetUserLocation(location) ==
  /\ chat' = [chat EXCEPT !.userLocation = location]
  /\ chatLast' = Ran("setUserLocation", "-",
                     IF location = chat.userLocation THEN "same" ELSE "changed",
                     1)
  /\ UNCHANGED <<createCalls, sendCalls, deleteCalls, createCount, sendCount,
                 endCount, notChat>>

\* endSession, up to its await: with a session the remote delete is issued;
\* without one setState(initialState) runs at once.
EndSession ==
  /\ RequestLeft
  /\ endCount' = endCount + 1
  /\ IF chat.sessionId # NoSession
     THEN /\ deleteCalls' = deleteCalls \cup
               {[call |-> endCount + 1, sessionId |-> chat.sessionId]}
          /\ chatLast' = Ran("endSession", "-", "requested", 0)
          /\ UNCHANGED chat
     ELSE /\ chat' = initialState
          /\ chatLast' = Ran("endSession", "-", "reset", 1)
          /\ UNCHANGED deleteCalls
  /\ UNCHANGED <<createCalls, sendCalls, createCount, sendCount, notChat>>

\* The state endSession sets after the delete call returned or threw: the
\* catch block only logs, setState(initialState) follows in every case.
StateAfterDeleteOnlyIfOk(outcome) == IF outcome = "ok" THEN initialState ELSE chat

StateAfterDelete(outcome) == initialState

\* endSession after its await.
EndSessionSettled(d, outcome) ==
  /\ d \in deleteCalls
  /\ deleteCalls' = deleteCalls \ {d}
  /\ chat' = StateAfterDelete(outcome)
  /\ chatLast' = Ran("endSession.then", "-", outcome, 1)
  /\ UNCHANGED <<createCalls, sendCalls, createCount, sendCount, endCount, notChat>>

NextChat ==
  \/ CreateSession
  \/ \E n \in createCalls : \E welcome_message \in BOOLEAN :
       CreateSessionResolved(n, welcome_message)
  \/ \E n \in createCalls : CreateSessionFailed(n)
  \/ \E message \in Texts : SendMessage(message)
  \/ \E message \in Texts : HandleSubmit(message)
  \/ \E c \in sendCalls : SendMessageResolved(c)
  \/ \E c \in sendCalls : SendMessageFailed(c)
  \/ ToggleChat
  \/ CloseChat
  \/ ClearChat
  \/ \E location \in Locations \cup {NullLocation} : SetUserLocation(location)
  \/ EndSession
  \/ \E d \in deleteCalls : \E outcome \in DeleteOutcomes :
       EndSessionSettled(d, outcome)


(***************************************************************************)
(* Claims about the chat session (specification SpecChat)                  *)
(***************************************************************************)
\* C1: send exclusivity.  A sendMessage call made while an earlier one has
\* not resolved issues no remote request and appends nothing (it fails with
\* Busy): at most one sendMessage request is outstanding at any time.
C1_SendExclusive == Cardinality(sendCalls) <= 1

\* C4: end-session resilience.  When endSession finishes after its remote
\* delete call (answered with success, answered with failure, or thrown),
\* the chat state is the initial state: sessionId null, nothing else left.
C4_EndSessionResets ==
  chatLast.op = "endSession.then" => chat = initialState

\* C4 witness: endSession finished after a delete call that failed or threw,
\* in a behaviour in which a session existed and a message had been sent.
C4_Witness ==
  /\ chatLast.op = "endSession.then"
  /\ chatLast.info \in {"fail", "throw"}
  /\ createCount > 0
  /\ sendCount > 0
  /\ chat.sessionId = NoSession

C6_SingleSession ==
  Cardinality(createCalls) + (IF chat.sessionId # NoSession THEN 1 ELSE 0) <= 1

\* C7: location no-op.  setUserLocation called with a location whose
\* (lat, lng) equals the stored userLocation makes no state change and
\* emits no change notification (no setState call).
C7_SameLocationNoChange ==
  (/\ chatLast.op = "setUserLocation"
   /\ chatLast.info = "same"
   /\ chat.userLocation # NullLocation)
    => chatLast.setStates = 0

\* C13: error persistence.  An error recorded in the chat state stays until
\* it is cleared explicitly (the hook's only explicit reset is endSession):
\* no createSession, sendMessage, setUserLocation or clearChat step, and no
\* completion of one, turns a recorded error back into null.
C13_ErrorPersists ==
  [][(chat.error # NoError /\ chat'.error = NoError)
       => chatLast'.op \in {"endSession", "endSession.then"}]_vars

\* C14 as stated: error gate.  While a session is Active and an error is
\* recorded, sendMessage is disabled: a send attempt (a call of sendMessage
\* or a submit of the chat input with a non-blank text) issues no remote
\* request and appends no message.
C14_SendDisabledWhileError ==
  [][(/\ chat.sessionId # NoSession
       /\ chat.error # NoError
       /\ chatLast'.op \in {"sendMessage", "handleSubmit"}
       /\ Trim(chatLast'.text) # "")
       => /\ sendCalls' = sendCalls
          /\ chat'.messages = chat.messages]_vars

\* C14 amended: the gate is the chat input's.  While a session is Active
\* and an error is recorded, a submit of the chat input does not call
\* sendMessage: it issues no remote request, appends nothing and leaves the
\* chat state (the error too) as it was.
C14_SubmitDisabledWhileError ==
  [][(/\ chat.sessionId # NoSession
       /\ chat.error # NoError
       /\ chatLast'.op = "handleSubmit")
       => /\ chatLast'.info = "ignored"
          /\ sendCalls' = sendCalls
          /\ sendCount' = sendCount
          /\ chat' = chat]_vars

\* C14 witness: a non-blank text was submitted in the open panel of an
\* Active session, after a send had failed, and was ignored.
C14_Witness ==
  /\ chatLast = Ran("handleSubmit", "hi", "ignored", 0)
  /\ chat.sessionId # NoSession
  /\ chat.error = "Failed to send message"
  /\ chat.isOpen
  /\ ~chat.isLoading
  /\ sendCalls = {}

\* C15: transcript pairing.  In every reachable transcript each assistant
\* message that answers a send (the welcome message of a new session is left
\* aside) stands immediately behind the user message of the same send.
C15_TranscriptPairing ==
  \A i \in 1..Len(chat.messages) :
    (chat.messages[i].role = "assistant" /\ chat.messages[i].id[1] = "assistant")
      => /\ i > 1
         /\ chat.messages[i - 1].role = "user"
         /\ chat.messages[i - 1].id = <<"user", chat.messages[i].id[2]>>

\* C19: optimistic append.  A sendMessage accepted in an Active session
\* appends the user message at once, with the request still outstanding; a
\* request that fails sets the error, leaves the transcript as it is (the
\* user message stays, no assistant message is added) and issues no resend.
C19_OptimisticAppend ==
  [][/\ (chatLast'.op \in {"sendMessage", "handleSubmit"}
          /\ chatLast'.info = "requested")
          => /\ chat.sessionId # NoSession
             /\ Len(chat'.messages) = Len(chat.messages) + 1
             /\ SubSeq(chat'.messages, 1, Len(chat.messages)) = chat.messages
             /\ chat'.messages[Len(chat'.messages)].role = "user"
             /\ chat'.messages[Len(chat'.messages)].content = chatLast'.text
             /\ \E c \in sendCalls' \ sendCalls :
                  /\ sendCalls' = sendCalls \cup {c}
                  /\ chat'.messages[Len(chat'.messages)].id = <<"user", c.call>>
     /\ (chatLast'.op = "sendMessage.then" /\ chatLast'.info = "failed")
          => /\ chat'.error # NoError
             /\ chat'.messages = chat.messages
             /\ sendCount' = sendCount
             /\ \E c \in sendCalls : sendCalls' = sendCalls \ {c}]_vars

\* C19 witness: the only send of an Active session has failed; its user
\* message is the last of the transcript, the error is recorded and no
\* request is outstanding.
C19_Witness ==
  /\ chatLast = Ran("sendMessage.then", "-", "failed", 1)
  /\ sendCount = 1
  /\ sendCalls = {}
  /\ chat.sessionId # NoSession
  /\ chat.error = "Failed to send message"
  /\ Len(chat.messages) > 0
  /\ chat.messages[Len(chat.messages)] =
       [id |-> <<"user", 1>>, content |-> "hi", role |-> "user"]

IsPrefix(p, q) == Len(p) <= Len(q) /\ SubSeq(q, 1, Len(p)) = p

\* C21: append-only transcript.  Every step other than clearChat and
\* endSession keeps the transcript it found as a prefix of the one it
\* leaves: messages are only appended, never reordered, modified or removed
\* one by one.
C21_AppendOnly ==
  [][\/ IsPrefix(chat.messages, chat'.messages)
     \/ chatLast'.op \in {"clearChat", "endSession", "endSession.then"}]_vars

\* C21 witness: a transcript of a welcome message, a user message and its
\* answer, just completed by the answer.
C21_Witness ==
  /\ chatLast = Ran("sendMessage.then", "-", "ok", 2)
  /\ Len(chat.messages) = 3
  /\ chat.messages[1].id[1] = "welcome"
  /\ chat.messages[2].role = "user"
  /\ chat.messages[3].role = "assistant"

\* C22: clearChat frame.  clearChat empties the message list and leaves
\* sessionId, isOpen, isTyping, isLoading, error and userLocation as they
\* were, and the pending requests too, also while a send or a session
\* creation is pending.
C22_ClearChatFrame ==
  [][(chatLast'.op = "clearChat")
       => /\ chat'.messages = <<>>
          /\ chat'.sessionId = chat.sessionId
          /\ chat'.isOpen = chat.isOpen
          /\ chat'.isTyping = chat.isTyping
          /\ chat'.isLoading = chat.isLoading
          /\ chat'.error = chat.error
          /\ chat'.userLocation = chat.userLocation
          /\ <<createCalls, sendCalls, deleteCalls>>' =
               <<createCalls, sendCalls, deleteCalls>>]_vars

\* C22 witness: clearChat has just run on an Active session with a send
\* and a second session creation pending, a location stored and the typing
\* and loading flags set.
C22_Witness ==
  /\ chatLast.op = "clearChat"
  /\ chat.messages = <<>>
  /\ chat.sessionId # NoSession
  /\ sendCalls # {}
  /\ createCalls # {}
  /\ chat.isTyping
  /\ chat.isLoading
  /\ chat.userLocation \in Locations

\* C26: no cross-session leakage.  Right after endSession has reset the
\* state, every request still outstanding was issued before the reset; the
\* completion of such a sendMessage or createSession changes nothing: the
\* transcript stays empty and sessionId stays null.
C26_NoCrossSessionLeakage ==
  [][(/\ chatLast.op \in {"endSession", "endSession.then"}
       /\ chatLast.info # "requested"
       /\ chat = initialState
       /\ chatLast'.op \in {"sendMessage.then", "createSession.then"})
       => chat' = chat]_vars

\* What one operation of the chat panel makes of the chat state st of a
\* session that exists: clearChat, closeChat, toggleChat (which creates no
\* session when there is one), and a submit that ChatInput refuses.
PanelOperations(st) ==
  {ClearedState(st), ClosedState(st),
   IF st.isOpen THEN ClosedState(st) ELSE OpenedState(st), st}

\* The chat states any number of panel operations lead to from those of S.
RECURSIVE PanelReach(_)
PanelReach(S) ==
  LET T == S \cup UNION {PanelOperations(st) : st \in S}
  IN IF T = S THEN S ELSE PanelReach(T)

\* A submit in the panel that issues a remote sendMessage request: the panel
\* is rendered, ChatInput lets the message through and sendMessage's guard
\* passes.
CanSend(st) ==
  /\ st.isOpen
  /\ \E message \in Texts :
       /\ SubmitPasses(st, message)
       /\ Trim(message) # ""
       /\ st.sessionId # NoSession

\* C30: recovery after a failed send.  From a state with a session whose
\* sendMessage has just failed, the operations the chat panel offers
\* (submitting, clearChat, closeChat, toggleChat) lead to a state in which a
\* submit issues a further sendMessage request.
C30_RecoveryAfterFailedSend ==
  (chat.sessionId # NoSession /\ chatLast = Ran("sendMessage.then", "-", "failed", 1))
    => \E st \in PanelReach({chat}) : CanSend(st)

(***************************************************************************)
(* Geolocation: hooks/useGeolocation.ts                                    *)
(***************************************************************************)
Browsers == {"firefox", "safari", "other"}

\* getBrowserOptimizedOptions: {enableHighAccuracy: true, timeout by browser}
\* (maximumAge is passed on unchanged and is left out).
getBrowserOptimizedOptions(userAgent) ==
  [enableHighAccuracy |-> TRUE,
   timeout |-> IF userAgent = "firefox" THEN 35000
               ELSE IF userAgent = "safari" THEN 25000
               ELSE 15000]

\* GeolocationPositionError codes; OTHER is any code the switch does not name.
ErrorCodes == {"PERMISSION_DENIED", "POSITION_UNAVAILABLE", "TIMEOUT", "OTHER"}

PermissionStates == {"granted", "denied", "prompt"}

Min(a, b) == IF a <= b THEN a ELSE b

InitGeo ==
  /\ browser \in Browsers
  /\ geo \in [location : {NullLocation},
              isLoading : {FALSE},
              error : {NoError},
              isSupported : BOOLEAN,
              permission : {"unknown"}]
  /\ permissionPc \in {"query", "unsupported"}
  /\ acquires = {}
  /\ acquireCount = 0
  /\ geoLast = [op |-> "mount", call |-> 0, info |-> "none"]

\* A permission update that also ended loading and dropped the error.
WithPermissionResettingFlags(st, p) ==
  [st EXCEPT !.permission = p, !.isLoading = FALSE, !.error = NoError]

\* setStateWithLogging(prev => ({...prev, permission: result.state}))
WithPermission(st, p) == [st EXCEPT !.permission = p]

\* checkPermission without a Permissions API (and its catch block):
\* permission: 'unknown'.
CheckPermissionUnsupported ==
  /\ permissionPc = "unsupported"
  /\ permissionPc' = "none"
  /\ geo' = WithPermission(geo, "unknown")
  /\ geoLast' = [op |-> "checkPermission", call |-> 0, info |-> "unknown"]
  /\ UNCHANGED <<browser, acquires, acquireCount, notGeo>>

\* checkPermission after navigator.permissions.query answered: the state is
\* stored and the change listener is added.
CheckPermissionResolved(p) ==
  /\ permissionPc = "query"
  /\ permissionPc' = "listening"
  /\ geo' = WithPermission(geo, p)
  /\ geoLast' = [op |-> "checkPermission", call |-> 0, info |-> p]
  /\ UNCHANGED <<browser, acquires, acquireCount, notGeo>>

\* The 'change' listener of the permission status.
PermissionChange(p) ==
  /\ permissionPc = "listening"
  /\ geo' = WithPermission(geo, p)
  /\ geoLast' = [op |-> "permissionChange", call |-> 0, info |-> p]
  /\ UNCHANGED <<browser, permissionPc, acquires, acquireCount, notGeo>>

\* getCurrentLocation without navigator.geolocation: the error is stored and
\* the call throws.
UnsupportedState(st) == [st EXCEPT !.error = "not supported"]

\* setStateWithLogging(prev => ({...prev, isLoading: true, error: null}))
StartedState(st) == [st EXCEPT !.isLoading = TRUE, !.error = NoError]

\* tryWithOptions(finalOptions): the first sensor call of an acquire, with
\* attemptsLeft = 2 and the options of the browser.
FirstAttempt(call, userAgent) ==
  [call |-> call,
   attemptsLeft |-> 2,
   enableHighAccuracy |-> getBrowserOptimizedOptions(userAgent).enableHighAccuracy,
   timeout |-> getBrowserOptimizedOptions(userAgent).timeout,
   sensorCalls |-> 1]

\* The state successHandler sets.
LocatedState(st, location) ==
  [st EXCEPT !.location = location, !.isLoading = FALSE,
             !.error = NoError, !.permission = "granted"]

\* The fallback options of a retry: enableHighAccuracy false and
\* Math.min((opts.timeout ?? 15000) * 1.5, 60000), opts being the options of
\* the attempt that failed.
FallbackAttempt(a) ==
  [a EXCEPT !.attemptsLeft = @ - 1,
            !.enableHighAccuracy = FALSE,
            !.timeout = Min((@ * 3) \div 2, 60000),
            !.sensorCalls = @ + 1]

\* The state errorHandler sets: permission is 'denied' for PERMISSION_DENIED
\* and 'unknown' for every other code.
FailedState(st, code) ==
  [st EXCEPT !.isLoading = FALSE,
             !.error = code,
             !.permission = IF code = "PERMISSION_DENIED"
                            THEN "denied" ELSE "unknown"]

\* The state clearError sets.
ErrorClearedState(st) == [st EXCEPT !.error = NoError]

\* getCurrentLocation up to the first navigator.geolocation.getCurrentPosition
\* call: tryWithOptions(finalOptions) with attemptsLeft = 2.  Every call
\* starts a sensor call of its own.
GetCurrentLocation ==
  /\ acquireCount < MaxAcquires
  /\ acquireCount' = acquireCount + 1
  /\ IF ~geo.isSupported
     THEN /\ geo' = UnsupportedState(geo)
          /\ geoLast' = [op |-> "getCurrentLocation", call |-> acquireCount + 1,
                         info |-> "threw"]
          /\ UNCHANGED acquires
     ELSE /\ geo' = StartedState(geo)
          /\ acquires' = acquires \cup {FirstAttempt(acquireCount + 1, browser)}
          /\ geoLast' = [op |-> "getCurrentLocation", call |-> acquireCount + 1,
                         info |-> "requested"]
  /\ UNCHANGED <<browser, permissionPc, notGeo>>

\* successHandler
SensorSuccess(a, location) ==
  /\ a \in acquires
  /\ acquires' = acquires \ {a}
  /\ geo' = LocatedState(geo, location)
  /\ geoLast' = [op |-> "resolve", call |-> a.call, info |-> "location"]
  /\ UNCHANGED <<browser, permissionPc, acquireCount, notGeo>>

\* The error callback of tryWithOptions: a retry with the fallback options
\* when attemptsLeft > 0 and the code is POSITION_UNAVAILABLE.
RetriesAnyCode(a, code) == a.attemptsLeft > 0

Retries(a, code) == a.attemptsLeft > 0 /\ code = "POSITION_UNAVAILABLE"

SensorErrorRetry(a, code) ==
  /\ a \in acquires
  /\ Retries(a, code)
  /\ acquires' = (acquires \ {a}) \cup {FallbackAttempt(a)}
  /\ geoLast' = [op |-> "retry", call |-> a.call, info |-> code]
  /\ UNCHANGED <<browser, geo, permissionPc, acquireCount, notGeo>>

\* errorHandler
SensorErrorSurfaced(a, code) ==
  /\ a \in acquires
  /\ ~Retries(a, code)
  /\ acquires' = acquires \ {a}
  /\ geo' = FailedState(geo, code)
  /\ geoLast' = [op |-> "reject", call |-> a.call, info |-> code]
  /\ UNCHANGED <<browser, permissionPc, acquireCount, notGeo>>

\* clearLocation
ClearLocation ==
  /\ geo' = [geo EXCEPT !.location = NullLocation, !.error = NoError]
  /\ geoLast' = [op |-> "clearLocation", call |-> 0, info |-> "none"]
  /\ UNCHANGED <<browser, permissionPc, acquires, acquireCount, notGeo>>

\* clearError
ClearError ==
  /\ geo' = ErrorClearedState(geo)
  /\ geoLast' = [op |-> "clearError", call |-> 0, info |-> "none"]
  /\ UNCHANGED <<browser, permissionPc, acquires, acquireCount, notGeo>>

NextGeo ==
  \/ CheckPermissionUnsupported
  \/ \E p \in PermissionStates : CheckPermissionResolved(p)
  \/ \E p \in PermissionStates : PermissionChange(p)
  \/ GetCurrentLocation
  \/ \E a \in acquires : \E location \in Locations : SensorSuccess(a, location)
  \/ \E a \in acquires : \E code \in ErrorCodes : SensorErrorRetry(a, code)
  \/ \E a \in acquires : \E code \in ErrorCodes : SensorErrorSurfaced(a, code)
  \/ ClearLocation
  \/ ClearError

(***************************************************************************)
(* Claims about geolocation (specification SpecGeo)                        *)
(***************************************************************************)
\* C2: location dedup.  A getCurrentLocation call issued while another is
\* outstanding starts no second sensor call: at every moment at most one
\* navigator.geolocation.getCurrentPosition call is outstanding.
C2_OneSensorCallOutstanding == Cardinality(acquires) <= 1

\* C3: bounded retry.  Within one getCurrentLocation call a
\* POSITION_UNAVAILABLE failure is retried at most once: one call issues at
\* most two sensor calls.
C3_AtMostTwoSensorCalls == \A a \in acquires : a.sensorCalls <= 2

\* C16: permission transitions.  The permission field changes only with a
\* permission query result or change notification, with a successful
\* acquisition (to granted) or with an acquisition failing with
\* PERMISSION_DENIED (to denied); every other step, an acquisition failing
\* with POSITION_UNAVAILABLE, TIMEOUT or another code included, leaves it
\* as it was.
C16_PermissionTransitions ==
  [][(geo'.permission # geo.permission)
       => \/ geoLast'.op \in {"checkPermission", "permissionChange"}
          \/ geoLast'.op = "resolve" /\ geo'.permission = "granted"
          \/ /\ geoLast'.op = "reject"
             /\ geoLast'.info = "PERMISSION_DENIED"
             /\ geo'.permission = "denied"]_vars

NonRecoverable == {"PERMISSION_DENIED", "TIMEOUT", "OTHER"}

\* C17: non-recoverable location errors.  A sensor call failing with
\* PERMISSION_DENIED, TIMEOUT or an unnamed code is never retried: the
\* failure is surfaced in the same step (the error is recorded, loading
\* ends, the promise is rejected) and the acquire issues no further sensor
\* call; for PERMISSION_DENIED permission becomes denied.
C17_NonRecoverableSurfaced ==
  [][/\ geoLast'.op = "retry" => geoLast'.info \notin NonRecoverable
     /\ (geoLast'.op = "reject" /\ geoLast'.info \in NonRecoverable)
          => /\ \E a \in acquires :
                  a.call = geoLast'.call /\ acquires' = acquires \ {a}
             /\ geo'.error = geoLast'.info
             /\ ~geo'.isLoading
             /\ geoLast'.info = "PERMISSION_DENIED"
                  => geo'.permission = "denied"]_vars

\* C17 witness: the only acquire made was rejected with PERMISSION_DENIED;
\* permission is denied and no sensor call is outstanding.
C17_Witness ==
  /\ geoLast.op = "reject"
  /\ geoLast.info = "PERMISSION_DENIED"
  /\ geo.permission = "denied"
  /\ geo.error = "PERMISSION_DENIED"
  /\ acquireCount = 1
  /\ acquires = {}

\* C18: stale sensor results.  A sensor call that was outstanding when
\* clearLocation ran is stale: when it answers with a position right after
\* the clear, the result is discarded and location stays absent.
C18_StaleResultDiscarded ==
  [][(geoLast.op = "clearLocation" /\ geoLast'.op = "resolve")
       => geo'.location = NullLocation]_vars

\* C23: permission notification frame.  The result of the permission query
\* and every permission-change notification write the permission field
\* only: location, error, isLoading and the outstanding sensor calls are as
\* before, also while an acquire is outstanding.
C23_PermissionFrame ==
  [][(geoLast'.op \in {"checkPermission", "permissionChange"})
       => /\ geo'.permission = geoLast'.info
          /\ geo'.location = geo.location
          /\ geo'.error = geo.error
          /\ geo'.isLoading = geo.isLoading
          /\ geo'.isSupported = geo.isSupported
          /\ acquires' = acquires]_vars

\* C23 witness: a change notification arrived with a location stored from
\* an earlier acquire and a second acquire outstanding.
C23_Witness ==
  /\ geoLast.op = "permissionChange"
  /\ geoLast.info = "denied"
  /\ geo.permission = "denied"
  /\ geo.location \in Locations
  /\ geo.isLoading
  /\ acquires # {}

\* The timeout of the initial policy, by platform.
InitialTimeout == getBrowserOptimizedOptions(browser).timeout

\* C25: relaxed retry policy.  The first sensor call of every acquire uses
\* enableHighAccuracy = true and the platform's timeout T0; every retry
\* sensor call uses enableHighAccuracy = false and timeout
\* min(T0 * 1.5, 60000).
C25_RelaxedRetryPolicy ==
  \A a \in acquires :
    IF a.sensorCalls = 1
    THEN a.enableHighAccuracy /\ a.timeout = InitialTimeout
    ELSE /\ ~a.enableHighAccuracy
         /\ a.timeout = Min((InitialTimeout * 3) \div 2, 60000)

\* C28: in-flight flag accuracy.  isLoading is true exactly while at least
\* one getCurrentLocation call is outstanding (issued and neither resolved
\* nor rejected), a retry after POSITION_UNAVAILABLE and overlapping calls
\* included.
C28_InFlightFlagAccurate == geo.isLoading <=> acquires # {}

(***************************************************************************)
(* The chat panel: FloatingChatbot renders ChatPanel while chat.isOpen;    *)
(* ChatPanel renders ChatHeader (with its own useGeolocation instance and  *)
(* a LocationButton) and ChatInput.  LocationButton calls useGeolocation() *)
(* and useChatSession() itself, so it has an instance of each of its own.  *)
(* A second LocationButton (in ChatInput) is the same component again and  *)
(* is left out.  Closing the panel unmounts these components and drops     *)
(* their state; opening it mounts new ones.                                *)
(***************************************************************************)
Instances == {"header", "button"}

\* A useGeolocation instance before its mount effect ran, with
\* navigator.geolocation present or not and checkPermission to come.
NewInstance(supported, pc) ==
  [state |-> [location |-> NullLocation, isLoading |-> FALSE, error |-> NoError,
              isSupported |-> supported, permission |-> "unknown"],
   permissionPc |-> pc,
   acquires |-> {}]

\* The instance a component mounted anew gets, in the same browser.
FreshInstance(inst) ==
  NewInstance(inst.state.isSupported,
              IF inst.permissionPc \in {"query", "listening"}
              THEN "query" ELSE "unsupported")

InitPanel ==
  /\ panelGeo \in {[i \in Instances |-> NewInstance(supported, pc)] :
                     supported \in BOOLEAN, pc \in {"query", "unsupported"}}
  /\ autoLocationAttempted = FALSE
  /\ previousLocation = NullLocation
  /\ buttonChat = initialState
  /\ panelCount = [i \in Instances |-> 0]

\* getCurrentLocation on an instance, up to the first sensor call.
Acquiring(inst, call) ==
  IF ~inst.state.isSupported
  THEN [inst EXCEPT !.state = UnsupportedState(@)]
  ELSE [inst EXCEPT !.state = StartedState(@),
                    !.acquires = @ \cup {FirstAttempt(call, browser)}]

\* A location effect that forwards whenever a location is there.
LocationEffectCallAlways(st, attempted, previous) ==
  IF st.location # NullLocation
  THEN "setUserLocation"
  ELSE IF st.location = NullLocation /\ ~attempted /\ ~st.isLoading
          /\ st.permission # "denied"
       THEN "getCurrentLocation"
       ELSE "none"

\* ChatHeader's location effect, run with the geolocation state st and the
\* refs autoLocationAttempted and previousLocation: the call it makes.
\* (chatSession is the prop ChatPanel always passes; the branch for a missing
\* chatSession is never taken.)
LocationEffectCall(st, attempted, previous) ==
  IF st.location # NullLocation
     /\ (previous = NullLocation \/ previous # st.location)
  THEN "setUserLocation"
  ELSE IF st.location = NullLocation /\ ~attempted /\ ~st.isLoading
          /\ st.permission # "denied"
       THEN "getCurrentLocation"
       ELSE "none"

\* The state of ChatHeader's instance became inst.state.  The location
\* effect runs again when one of its dependencies location?.lat,
\* location?.lng, permission changed (chatSession changes only with the chat
\* state), and its calls take effect in the same step.
HeaderCommit(inst) ==
  LET old == panelGeo["header"].state
      rerun == inst.state.location # old.location
               \/ inst.state.permission # old.permission
      call == IF rerun
              THEN LocationEffectCall(inst.state, autoLocationAttempted,
                                      previousLocation)
              ELSE "skipped"
  IN /\ CASE call = "setUserLocation" ->
               /\ previousLocation' = inst.state.location
               /\ chat' = [chat EXCEPT !.userLocation = inst.state.location]
               /\ chatLast' = Ran("setUserLocation", "-",
                                  IF inst.state.location = chat.userLocation
                                  THEN "same" ELSE "changed", 1)
               /\ panelGeo' = [panelGeo EXCEPT !["header"] = inst]
               /\ UNCHANGED <<autoLocationAttempted, panelCount>>
          [] call = "getCurrentLocation" ->
               /\ panelCount["header"] < MaxAcquires
               /\ autoLocationAttempted' = TRUE
               /\ panelGeo' = [panelGeo EXCEPT !["header"] =
                                 Acquiring(inst, panelCount["header"] + 1)]
               /\ panelCount' = [panelCount EXCEPT !["header"] = @ + 1]
               /\ UNCHANGED <<previousLocation, chat, chatLast>>
          [] OTHER ->
               /\ panelGeo' = [panelGeo EXCEPT !["header"] = inst]
               /\ UNCHANGED <<autoLocationAttempted, previousLocation,
                              panelCount, chat, chatLast>>
     /\ UNCHANGED <<buttonChat, createCalls, sendCalls, deleteCalls,
                    createCount, sendCount, endCount, homeVars, geoVars>>

\* The state of LocationButton's instance became inst.state; when
\* handleGetLocation's await returned a location, setUserLocation of the
\* button's own useChatSession() stores it.
ButtonCommit(inst, userLocation) ==
  /\ panelGeo' = [panelGeo EXCEPT !["button"] = inst]
  /\ buttonChat' = IF userLocation # NullLocation
                   THEN [buttonChat EXCEPT !.userLocation = userLocation]
                   ELSE buttonChat
  /\ UNCHANGED <<autoLocationAttempted, previousLocation, panelCount,
                 chatVars, homeVars, geoVars>>

PanelCommit(i, inst, userLocation) ==
  IF i = "header" THEN HeaderCommit(inst)
  ELSE ButtonCommit(inst, userLocation)

\* The panel mounts: new instances, then the mount effects.  ChatHeader's
\* location effect runs with the initial state, which holds no location.
Mount ==
  LET fresh == [i \in Instances |-> FreshInstance(panelGeo[i])]
      call == LocationEffectCall(fresh["header"].state, FALSE, NullLocation)
  IN /\ IF call = "getCurrentLocation"
        THEN /\ panelCount["header"] < MaxAcquires
             /\ autoLocationAttempted' = TRUE
             /\ panelGeo' = [fresh EXCEPT !["header"] =
                               Acquiring(@, panelCount["header"] + 1)]
             /\ panelCount' = [panelCount EXCEPT !["header"] = @ + 1]
        ELSE /\ autoLocationAttempted' = FALSE
             /\ panelGeo' = fresh
             /\ UNCHANGED panelCount
     /\ previousLocation' = NullLocation
     /\ buttonChat' = initialState

\* The panel unmounts: the state of its components is gone, and what their
\* outstanding sensor calls answer reaches nobody.
Unmount ==
  /\ panelGeo' = [i \in Instances |-> FreshInstance(panelGeo[i])]
  /\ autoLocationAttempted' = FALSE
  /\ previousLocation' = NullLocation
  /\ buttonChat' = initialState
  /\ UNCHANGED panelCount

\* ChatToggleButton: onClick={chatSession.toggleChat}
PanelToggleChat ==
  /\ ToggleChatCall
  /\ IF chat.isOpen THEN Unmount ELSE Mount
  /\ UNCHANGED <<homeVars, geoVars>>

\* ChatHeader's close button: onClose = chatSession.closeChat
PanelCloseChat ==
  /\ chat.isOpen
  /\ CloseChatCall
  /\ Unmount
  /\ UNCHANGED <<homeVars, geoVars>>

\* checkPermission of instance i without a Permissions API.
PanelCheckPermissionUnsupported(i) ==
  /\ chat.isOpen
  /\ panelGeo[i].permissionPc = "unsupported"
  /\ PanelCommit(i, [panelGeo[i] EXCEPT !.permissionPc = "none",
                                        !.state = WithPermission(@, "unknown")],
                 NullLocation)

\* checkPermission of instance i after navigator.permissions.query answered.
PanelCheckPermissionResolved(i, p) ==
  /\ chat.isOpen
  /\ panelGeo[i].permissionPc = "query"
  /\ PanelCommit(i, [panelGeo[i] EXCEPT !.permissionPc = "listening",
                                        !.state = WithPermission(@, p)],
                 NullLocation)

\* The 'change' listener of instance i.
PanelPermissionChange(i, p) ==
  /\ chat.isOpen
  /\ panelGeo[i].permissionPc = "listening"
  /\ PanelCommit(i, [panelGeo[i] EXCEPT !.state = WithPermission(@, p)],
                 NullLocation)

\* LocationButton.handleGetLocation up to its await: the button is rendered
\* when isSupported and enabled unless isLoading || permission === 'denied';
\* clearError(), then getCurrentLocation().
HandleGetLocation ==
  /\ chat.isOpen
  /\ panelGeo["button"].state.isSupported
  /\ ~(panelGeo["button"].state.isLoading
       \/ panelGeo["button"].state.permission = "denied")
  /\ panelCount["button"] < MaxAcquires
  /\ panelGeo' = [panelGeo EXCEPT !["button"] =
                    Acquiring([@ EXCEPT !.state = ErrorClearedState(@)],
                              panelCount["button"] + 1)]
  /\ panelCount' = [panelCount EXCEPT !["button"] = @ + 1]
  /\ UNCHANGED <<autoLocationAttempted, previousLocation, buttonChat,
                 chatVars, homeVars, geoVars>>

\* successHandler of a sensor call of instance i; for the button,
\* handleGetLocation goes on after its await.
PanelSensorSuccess(i, a, location) ==
  /\ chat.isOpen
  /\ a \in panelGeo[i].acquires
  /\ PanelCommit(i, [panelGeo[i] EXCEPT !.acquires = @ \ {a},
                                        !.state = LocatedState(@, location)],
                 location)

\* The error callback of a sensor call of instance i that retries.
PanelSensorErrorRetry(i, a, code) ==
  /\ chat.isOpen
  /\ a \in panelGeo[i].acquires
  /\ Retries(a, code)
  /\ PanelCommit(i, [panelGeo[i] EXCEPT !.acquires = (@ \ {a}) \cup {FallbackAttempt(a)}],
                 NullLocation)

\* errorHandler of a sensor call of instance i; the rejection is caught and
\* logged by the caller.
PanelSensorErrorSurfaced(i, a, code) ==
  /\ chat.isOpen
  /\ a \in panelGeo[i].acquires
  /\ ~Retries(a, code)
  /\ PanelCommit(i, [panelGeo[i] EXCEPT !.acquires = @ \ {a},
                                        !.state = FailedState(@, code)],
                 NullLocation)

\* The steps that bear on where ChatHeader's location is stored: opening
\* and closing the panel (with the session creation toggleChat starts) and
\* the events of ChatHeader's geolocation instance.  Sending and clearing are
\* steps of the chat session (NextChat); they read or change neither the
\* instances nor the refs.
NextHeader ==
  \/ PanelToggleChat
  \/ PanelCloseChat
  \/ \E n \in createCalls : \E welcome_message \in BOOLEAN :
       CreateSessionResolved(n, welcome_message)
  \/ \E n \in createCalls : CreateSessionFailed(n)
  \/ PanelCheckPermissionUnsupported("header")
  \/ \E p \in PermissionStates : PanelCheckPermissionResolved("header", p)
  \/ \E p \in PermissionStates : PanelPermissionChange("header", p)
  \/ \E a \in panelGeo["header"].acquires : \E location \in Locations :
       PanelSensorSuccess("header", a, location)
  \/ \E a \in panelGeo["header"].acquires : \E code \in ErrorCodes :
       PanelSensorErrorRetry("header", a, code)
  \/ \E a \in panelGeo["header"].acquires : \E code \in ErrorCodes :
       PanelSensorErrorSurfaced("header", a, code)

\* The location button and the events of its geolocation instance.
NextButton ==
  \/ HandleGetLocation
  \/ PanelCheckPermissionUnsupported("button")
  \/ \E p \in PermissionStates : PanelCheckPermissionResolved("button", p)
  \/ \E p \in PermissionStates : PanelPermissionChange("button", p)
  \/ \E a \in panelGeo["button"].acquires : \E location \in Locations :
       PanelSensorSuccess("button", a, location)
  \/ \E a \in panelGeo["button"].acquires : \E code \in ErrorCodes :
       PanelSensorErrorRetry("button", a, code)
  \/ \E a \in panelGeo["button"].acquires : \E code \in ErrorCodes :
       PanelSensorErrorSurfaced("button", a, code)

NextPanel == NextHeader \/ NextButton

(***************************************************************************)
(* Claims about the chat panel (specifications SpecHeader and SpecPanel)    *)
(***************************************************************************)
\* A step in which a sensor call of the location button answered with a
\* position: the call is gone, the button's instance is no longer loading
\* and holds a location and no error.
ButtonLocated ==
  /\ panelGeo'["button"].acquires # panelGeo["button"].acquires
  /\ ~panelGeo'["button"].state.isLoading
  /\ panelGeo'["button"].state.error = NoError
  /\ panelGeo'["button"].state.location # NullLocation

\* C27: manual location reaches the chat.  When the location button has
\* acquired a location, the chat session that sends the messages (the
\* useChatSession of FloatingChatbot) stores that location.
C27_ManualLocationReachesChat ==
  [][ButtonLocated => chat'.userLocation = panelGeo'["button"].state.location]_vars

\* A step in which ChatHeader's location effect called getCurrentLocation.
AutoRequested == panelCount'["header"] # panelCount["header"]

\* A step in which ChatHeader's location effect called
\* chatSession.setUserLocation (it sets previousLocation with the call).
Forwarded == chat'.isOpen /\ previousLocation' # previousLocation

\* A step in which the location ChatHeader's instance holds changed while the
\* header stayed mounted.
HeaderLocationChanged ==
  /\ chat.isOpen /\ chat'.isOpen
  /\ panelGeo'["header"].state.location # panelGeo["header"].state.location

\* C29: location forwarding converges.  While ChatHeader is mounted its
\* location effect requests the location at most once (only with
\* autoLocationAttempted false, which it sets and which then stays set) and
\* never with permission 'denied'; it calls setUserLocation in exactly the
\* steps in which the acquired location changes, with that location; and
\* after every step a further run of the effect makes no call.
C29_ForwardingConverges ==
  [][/\ AutoRequested =>
          /\ ~autoLocationAttempted /\ autoLocationAttempted'
          /\ panelGeo'["header"].state.permission # "denied"
     /\ (chat.isOpen /\ chat'.isOpen /\ autoLocationAttempted)
          => autoLocationAttempted' /\ ~AutoRequested
     /\ HeaderLocationChanged <=> Forwarded
     /\ Forwarded =>
          /\ previousLocation' = panelGeo'["header"].state.location
          /\ chat'.userLocation = panelGeo'["header"].state.location
     /\ chat'.isOpen =>
          LocationEffectCall(panelGeo'["header"].state, autoLocationAttempted',
                             previousLocation') = "none"]_vars

\* C29 witness: the header is mounted, its automatic request has been made
\* and answered, and the location it holds has been forwarded to the chat
\* session by the last step.
C29_Witness ==
  /\ chat.isOpen
  /\ autoLocationAttempted
  /\ panelGeo["header"].state.location \in Locations
  /\ previousLocation = panelGeo["header"].state.location
  /\ chat.userLocation = previousLocation
  /\ chatLast.op = "setUserLocation"

\* The Home page before its mount effect ran, with an empty answer to come.
HomeIdle ==
  /\ apiOutlets = <<>>
  /\ outlets = <<>>
  /\ intersectionData = EmptyMap
  /\ homePc = "mount"
  /\ selectedOutlet = NoOutlet
  /\ highlighted = <<>>

\* A geolocation hook that is not used: no Permissions API, no sensor.
GeoIdle ==
  /\ browser = "other"
  /\ geo = [location |-> NullLocation, isLoading |-> FALSE, error |-> NoError,
            isSupported |-> FALSE, permission |-> "unknown"]
  /\ permissionPc = "none"
  /\ acquires = {}
  /\ acquireCount = 0
  /\ geoLast = [op |-> "mount", call |-> 0, info |-> "none"]

\* A chat panel that is never opened, in a browser without geolocation.
PanelIdle ==
  /\ panelGeo = [i \in Instances |-> NewInstance(FALSE, "unsupported")]
  /\ autoLocationAttempted = FALSE
  /\ previousLocation = NullLocation
  /\ buttonChat = initialState
  /\ panelCount = [i \in Instances |-> 0]

Init == InitHome /\ InitChat /\ InitGeo /\ InitPanel

Next == NextHome \/ NextChat \/ NextGeo \/ NextPanel

\* Each part alone, the other parts idle in their initial state.
InitHomeOnly == InitHome /\ InitChat /\ GeoIdle /\ PanelIdle

InitEngineOnly == InitEngine /\ InitChat /\ GeoIdle /\ PanelIdle

InitChatOnly == HomeIdle /\ InitChat /\ GeoIdle /\ PanelIdle

InitGeoOnly == HomeIdle /\ InitChat /\ InitGeo /\ PanelIdle

\* The chat panel on the chat session of FloatingChatbot.
InitPanelOnly == HomeIdle /\ InitChat /\ GeoIdle /\ InitPanel

SpecHome == InitHomeOnly /\ [][NextHome]_vars

SpecEngine == InitEngineOnly /\ [][NextEngine]_vars

SpecChat == InitChatOnly /\ [][NextChat]_vars

SpecGeo == InitGeoOnly /\ [][NextGeo]_vars

\* The panel without the location button's steps.
SpecHeader == InitPanelOnly /\ [][NextHeader]_vars

\* The panel with the location button.
SpecPanel == InitPanelOnly /\ [][NextPanel]_vars

Spec == Init /\ [][Next]_vars

====
